---- MODULE Spec2Model ----
(***************************************************************************)
(* A model of the aiida-chemshell plugin: the ChemShellCalculation input   *)
(* composer (validators, chemsh_script_generator, prepare_for_submission,  *)
(* _build_process_label) and the ChemShellParser output interpreter.       *)
(*                                                                         *)
(* Two specifications share the variables:                                 *)
(*   Spec       one job from its inputs through validation and             *)
(*              prepare_for_submission;                                    *)
(*   ParseSpec  one finished job: the engine retrieves a file set and      *)
(*              ChemShellParser.parse interprets it.                       *)
(***************************************************************************)
EXTENDS Integers, Sequences, FiniteSets, TLC

VARIABLES
    pc,          \* position of the job in its life cycle
    inputs,      \* self.inputs / self.node.inputs: the supplied input ports
    script,      \* statements of the script chemsh_script_generator returned
    folder,      \* names of the files written to the working folder
    calc_info,   \* the CalcInfo prepare_for_submission returned
    process_label, \* the label _build_process_label gave the process node
    error,       \* what a validator answered, or the exception that ended the job
    retrieved,   \* self.retrieved.list_object_names()
    content,     \* content of result.json in the retrieved folder
    outputs,     \* self.outputs of the parser: link label -> node
    out_calls,   \* link labels passed to self.out, in call order
    exit_status, \* status of the ExitCode parse returned (-1: none returned)
    raised       \* name of the exception that left parse ("" when none)

vars == <<pc, inputs, script, folder, calc_info, process_label, error, retrieved, content,
          outputs, out_calls, exit_status, raised>>

----------------------------------------------------------------------------
(* Bounds of the model *)

\* longest 'energy' array of a results record
MaxEnergyLen == 2

----------------------------------------------------------------------------
(* File names: calculations.py 21-25 *)

FILE_SCRIPT == "chemshell_input.py"
FILE_STDOUT == "output.log"
FILE_DLFIND == "_dl_find.pun"
FILE_TMP_STRUCTURE == "input_structure.xyz"
FILE_RESULTS == "result.json"

(* Exit codes: calculations.py 130-159 *)

ERROR_STDOUT_NOT_FOUND == 300
ERROR_MISSING_FINAL_ENERGY == 301
ERROR_MISSING_OPTIMISED_STRUCTURE_FILE == 302
ERROR_RESULTS_FILE_NOT_FOUND == 303
ERROR_MISSING_GRADIENTS == 304

\* the exit codes spec.exit_code declares, by label
exit_codes ==
    [ERROR_STDOUT_NOT_FOUND |-> ERROR_STDOUT_NOT_FOUND,
     ERROR_MISSING_FINAL_ENERGY |-> ERROR_MISSING_FINAL_ENERGY,
     ERROR_MISSING_OPTIMISED_STRUCTURE_FILE |-> ERROR_MISSING_OPTIMISED_STRUCTURE_FILE,
     ERROR_RESULTS_FILE_NOT_FOUND |-> ERROR_RESULTS_FILE_NOT_FOUND,
     ERROR_MISSING_GRADIENTS |-> ERROR_MISSING_GRADIENTS]

----------------------------------------------------------------------------
(* Python values held by a Dict node.  t is the runtime type; exactly one  *)
(* of b, i, s, l carries the value (a float is carried by its repr in s).  *)

VBool(x) == [t |-> "bool", b |-> x, i |-> 0, s |-> "", l |-> <<>>]
VInt(x) == [t |-> "int", b |-> FALSE, i |-> x, s |-> "", l |-> <<>>]
VStr(x) == [t |-> "str", b |-> FALSE, i |-> 0, s |-> x, l |-> <<>>]
VFloat(x) == [t |-> "float", b |-> FALSE, i |-> 0, s |-> x, l |-> <<>>]
VList(x) == [t |-> "list", b |-> FALSE, i |-> 0, s |-> "", l |-> x]
VDict == [t |-> "dict", b |-> FALSE, i |-> 0, s |-> "", l |-> <<>>]
VNone == [t |-> "NoneType", b |-> FALSE, i |-> 0, s |-> "", l |-> <<>>]

\* a Dict node is the sequence of its items in insertion order
Item(key, val) == [k |-> key, v |-> val]

Keys(d) == {d[n].k : n \in DOMAIN d}

\* dict.get(key, default)
DictGet(d, key, default) ==
    IF key \in Keys(d)
    THEN d[CHOOSE n \in DOMAIN d : d[n].k = key].v
    ELSE default

\* Python truth value of a Dict value (what an 'if' makes of it)
Truthy(val) ==
    CASE val.t = "bool" -> val.b
      [] val.t = "int" -> val.i # 0
      [] val.t = "list" -> val.l # <<>>
      [] OTHER -> val.s # ""

----------------------------------------------------------------------------
(* The enumerations of utils.py and str.upper() on the strings the model   *)
(* supplies.                                                               *)

ChemShellQMTheory ==
    {"NONE", "CASTEP", "CP2K", "DFTBP", "FHI_AIMS", "GAMESS_UK", "GAUSSIAN",
     "LSDALTON", "MNDO", "MOLPRO", "NWCHEM", "ORCA", "PYSCF", "TURBOMOLE"}

ChemShellMMTheory == {"NONE", "DL_POLY", "GULP", "NAMD"}

Upper(str) ==
    CASE str = "nwchem" -> "NWCHEM"
      [] str = "NWChem" -> "NWCHEM"
      [] str = "orca" -> "ORCA"
      [] str = "none" -> "NONE"
      [] str = "None" -> "NONE"
      [] str = "dl_poly" -> "DL_POLY"
      [] str = "gulp" -> "GULP"
      [] str = "namd" -> "NAMD"
      [] str = "hf" -> "HF"
      [] str = "dft" -> "DFT"
      [] str = "mp2" -> "MP2"
      [] str = "rhf" -> "RHF"
      [] str = "uks" -> "UKS"
      [] str = "xhf" -> "XHF"
      [] str = "amber" -> "AMBER"
      [] str = "Dft" -> "DFT"
      [] str = "Namd" -> "NAMD"
      [] OTHER -> str

----------------------------------------------------------------------------
(* Validators: calculations.py 163-503.  A validator returns None (the    *)
(* value is accepted), returns a message, or raises.                      *)

Accept == [res |-> "None", what |-> "", keys |-> {}]
Message(what, keys) == [res |-> "message", what |-> what, keys |-> keys]
\* the invalid-keys message: it lists the invalid keys and the valid ones
KeyMessage(invalid_keys, valid_keys) ==
    [res |-> "message", what |-> "InvalidOptionKey", keys |-> invalid_keys,
     valid |-> valid_keys]
Raises(name) == [res |-> "raise", what |-> name, keys |-> {}]

\* the last n characters of the file names the model supplies
Suffix(name, n) ==
    CASE name = "water.xyz" /\ n = 4 -> ".xyz"
      [] name = "water.xyz" /\ n = 6 -> "er.xyz"
      [] name = "water.pun" /\ n = 4 -> ".pun"
      [] name = "water.pun" /\ n = 6 -> "er.pun"
      [] name = "water.cjson" /\ n = 4 -> "json"
      [] name = "water.cjson" /\ n = 6 -> ".cjson"
      [] name = "water.pdb" /\ n = 4 -> ".pdb"
      [] name = "water.pdb" /\ n = 6 -> "er.pdb"
      [] name = "xyz" /\ n = 4 -> "xyz"
      [] name = "xyz" /\ n = 6 -> "xyz"
      [] name = "water.json" /\ n = 4 -> "json"
      [] name = "water.json" /\ n = 6 -> "r.json"
      [] name = "water.XYZ" /\ n = 4 -> ".XYZ"
      [] name = "water.XYZ" /\ n = 6 -> "er.XYZ"
      [] name = "water.xyz.bak" /\ n = 4 -> ".bak"
      [] name = "water.xyz.bak" /\ n = 6 -> "yz.bak"
      [] name = "watercjson" /\ n = 4 -> "json"
      [] name = "watercjson" /\ n = 6 -> "rcjson"
      [] name = "butanol.ff" /\ n = 4 -> "l.ff"
      [] name = "butanol.ff" /\ n = 6 -> "nol.ff"
      [] OTHER -> name

\* validate_structure_file that knows the four-character extensions only
validate_structure_file_FourOnly(value) ==
    IF value.type = "SinglefileData"
       /\ Suffix(value.filename, 4) \notin {".xyz", ".pun"}
    THEN Message("InvalidStructureFormat", {})
    ELSE Accept

\* validate_structure_file: lines 182-188
validate_structure_file(value) ==
    IF value.type = "SinglefileData"
       /\ Suffix(value.filename, 4) \notin {".xyz", ".pun"}
       /\ Suffix(value.filename, 6) # ".cjson"
    THEN Message("InvalidStructureFormat", {})
    ELSE Accept

get_valid_calculation_parameter_keys == <<"gradients", "hessian">>

Range(seq) == {seq[n] : n \in DOMAIN seq}

\* validate_calculation_parameters: lines 219-235
validate_calculation_parameters(value) ==
    LET invalid_keys == Keys(value) \ Range(get_valid_calculation_parameter_keys)
    IN  IF invalid_keys # {}
        THEN KeyMessage(invalid_keys, Range(get_valid_calculation_parameter_keys))
        ELSE IF "gradients" \in Keys(value)
                /\ DictGet(value, "gradients", VNone).t # "bool"
        THEN Message("InvalidOptionType", {"gradients"})
        ELSE IF "hessian" \in Keys(value)
                /\ DictGet(value, "hessian", VNone).t # "bool"
        THEN Message("InvalidOptionType", {"hessian"})
        ELSE Accept

\* the optimiser controls without the last one
get_valid_optimisation_parameter_keys_Twelve ==
    <<"maxcycle", "maxene", "coordinates", "algorithm", "trust_radius",
      "maxstep", "tolerance", "neb", "nimages", "nebk", "dimer", "delta">>

get_valid_optimisation_parameter_keys ==
    <<"maxcycle", "maxene", "coordinates", "algorithm", "trust_radius",
      "maxstep", "tolerance", "neb", "nimages", "nebk", "dimer", "delta",
      "tsrelative">>

\* validate_optimisation_parameters: lines 282-293
validate_optimisation_parameters(value) ==
    LET invalid_keys == Keys(value) \ Range(get_valid_optimisation_parameter_keys)
    IN  IF invalid_keys # {}
        THEN KeyMessage(invalid_keys, Range(get_valid_optimisation_parameter_keys))
        ELSE Accept

\* isinstance(val, decl) for the declared types of the schemas; a bool is
\* an int to isinstance.  A union with a parameterized member (OTHER) is
\* matched on its str member; see IsInstanceRaises for the other values.
IsInstance(val, decl) ==
    CASE decl = "str" -> val.t = "str"
      [] decl = "int" -> val.t \in {"int", "bool"}
      [] decl = "float" -> val.t = "float"
      [] decl = "bool" -> val.t = "bool"
      [] decl = "dict" -> val.t = "dict"
      [] decl = "float|int" -> val.t \in {"float", "int", "bool"}
      [] decl = "str|dict" -> val.t \in {"str", "dict"}
      [] decl = "list|tuple" -> val.t = "list"
      [] OTHER -> val.t = "str"

\* whether type.__name__ exists: a plain class has a name, a union has none
HasName(decl) == decl \in {"str", "int", "float", "bool", "dict"}

\* get_valid_qm_paramater_keys: lines 305-322
get_valid_qm_paramater_keys ==
    [theory |-> "str", method |-> "str", basis |-> "str", charge |-> "float|int",
     functional |-> "str", mult |-> "float|int", scftype |-> "str",
     damping |-> "bool", diis |-> "bool", direct |-> "bool", guess |-> "str",
     maxiter |-> "int", path |-> "str", pseudopotential |-> "str|dict",
     restart |-> "bool", scf |-> "float"]

\* isinstance(val, decl) raises TypeError when the check reaches a
\* parameterized member (tuple[str], list[str]) of a union
IsInstanceRaises(val, decl) ==
    decl \in {"str|tuple[str]", "str|list[str]"} /\ val.t # "str"

\* the first item of a Dict whose value is no instance of its declared type
\* (0 when every item is): the loop of lines 357-360 and 499-502
FirstBadType(value, valid_keys) ==
    LET bad == {n \in DOMAIN value :
                    \/ IsInstanceRaises(value[n].v, valid_keys[value[n].k])
                    \/ ~IsInstance(value[n].v, valid_keys[value[n].k])}
    IN  IF bad = {} THEN 0 ELSE CHOOSE n \in bad : \A m \in bad : n <= m

\* what the type loop does at the first offending item
TypeMessage(value, valid_keys) ==
    LET n == FirstBadType(value, valid_keys)
        decl == valid_keys[value[n].k]
    IN  IF IsInstanceRaises(value[n].v, decl) THEN Raises("TypeError")
        ELSE IF HasName(decl) THEN Message("InvalidOptionType", {value[n].k})
        ELSE Raises("AttributeError")

\* validate_qm_parameters: lines 341-374
validate_qm_parameters(value) ==
    LET theory == DictGet(value, "theory", VStr(""))
        valid_keys == get_valid_qm_paramater_keys
        invalid_keys == Keys(value) \ DOMAIN valid_keys
    IN  IF theory.t # "str" THEN Raises("AttributeError")
        ELSE IF Upper(theory.s) \notin ChemShellQMTheory
        THEN IF "theory" \in Keys(value) THEN Message("InvalidOptionValue", {"theory"})
             ELSE Raises("TypeError")
        ELSE IF invalid_keys # {} THEN KeyMessage(invalid_keys, DOMAIN valid_keys)
        ELSE IF FirstBadType(value, valid_keys) # 0 THEN TypeMessage(value, valid_keys)
        ELSE IF "method" \in Keys(value)
                /\ Upper(DictGet(value, "method", VNone).s) \notin {"HF", "DFT"}
        THEN Message("InvalidOptionValue", {"method"})
        ELSE IF "scftype" \in Keys(value)
                /\ Upper(DictGet(value, "scftype", VNone).s)
                      \notin {"RHF", "UHF", "ROHF", "RKS", "UKS", "ROKS"}
        THEN Message("InvalidOptionValue", {"scftype"})
        ELSE Accept

\* one schema for every MM interface: the keys of all of them
get_valid_mm_paramater_keys_AllInterfaces(theory) ==
    [k \in {"theory", "input", "output", "rcut", "timestep", "molecule",
            "conjugate", "binary", "cutoff"} |->
        CASE k \in {"theory", "input", "output"} -> "str"
          [] k \in {"rcut", "timestep", "cutoff"} -> "float"
          [] OTHER -> "bool"]

\* get_valid_mm_paramater_keys: lines 386-466
get_valid_mm_paramater_keys(theory) ==
    CASE theory = "DL_POLY" ->
            [theory |-> "str", input |-> "str|tuple[str]", output |-> "str",
             berendsen |-> "float", delr |-> "float", densvar |-> "int",
             dl_field_charges |-> "bool", dl_field_types |-> "bool",
             equilibration |-> "int", ewald |-> "float", potential |-> "bool",
             print |-> "int", rcut |-> "float", rpad |-> "float",
             rvdw |-> "float", scale |-> "int", steps |-> "int",
             stack |-> "int", restart |-> "str", timestep |-> "float"]
      [] theory = "GULP" ->
            [theory |-> "str", input |-> "str", output |-> "str",
             molecule |-> "bool", conjugate |-> "bool"]
      [] theory = "NAMD" ->
            [theory |-> "str", input |-> "str", output |-> "str",
             binary |-> "bool", coor |-> "str", margin |-> "float",
             par |-> "str|list[str]", pdb |-> "str", prefix |-> "str",
             prefix_restart |-> "str", psf |-> "str", psfgen_options |-> "dict",
             vel |-> "str", xsc |-> "str", xst |-> "str", cutoff |-> "float",
             exclude |-> "str", ff_dir |-> "str", freq_nonbonded |-> "int",
             freq_full_elect |-> "int", merge_cross |-> "bool",
             pairlist_dist |-> "float", scaling14 |-> "float",
             switching |-> "bool", switch_dist |-> "float",
             nsteps_per_cycle |-> "int", seed |-> "int", constraints |-> "str",
             constraints_ref |-> "str", fixed_atoms |-> "str",
             fixed_atoms_forces |-> "bool", constant_area |-> "bool",
             flexible_cell |-> "bool", group_pressure |-> "bool", pme |-> "bool",
             pme_grid_sizes |-> "list|tuple", wrap_all |-> "bool",
             wrap_water |-> "bool"]
      [] OTHER -> [theory |-> "str", input |-> "str", output |-> "str"]

\* validate_mm_parameters: lines 485-503
validate_mm_parameters(value) ==
    LET raw == DictGet(value, "theory", VStr(""))
        theory == Upper(raw.s)
        valid_keys == get_valid_mm_paramater_keys(theory)
        invalid_keys == Keys(value) \ DOMAIN valid_keys
    IN  IF raw.t # "str" THEN Raises("AttributeError")
        ELSE IF theory \notin ChemShellMMTheory
        THEN Message("InvalidOptionValue", {"theory"})
        ELSE IF invalid_keys # {} THEN KeyMessage(invalid_keys, DOMAIN valid_keys)
        ELSE IF FirstBadType(value, valid_keys) # 0 THEN TypeMessage(value, valid_keys)
        ELSE Accept

----------------------------------------------------------------------------
(* chemsh_script_generator: calculations.py 600-717.  The script is the    *)
(* sequence of its statements; a statement is an import, an assignment     *)
(* target = ctor(args) with args the keyword arguments in order (each a    *)
(* key and the text of its value), or a bare call.                         *)

Digit(n) ==
    CASE n = 0 -> "0" [] n = 1 -> "1" [] n = 2 -> "2" [] n = 3 -> "3"
      [] n = 4 -> "4" [] n = 5 -> "5" [] n = 6 -> "6" [] n = 7 -> "7"
      [] n = 8 -> "8" [] OTHER -> "9"

RECURSIVE NatStr(_)
NatStr(n) == IF n < 10 THEN Digit(n) ELSE NatStr(n \div 10) \o Digit(n % 10)

IntStr(n) == IF n < 0 THEN "-" \o NatStr(0 - n) ELSE NatStr(n)

RECURSIVE JoinInts(_)
JoinInts(l) ==
    IF l = <<>> THEN ""
    ELSE IF Len(l) = 1 THEN IntStr(l[1])
    ELSE IntStr(l[1]) \o ", " \o JoinInts(Tail(l))

\* str(val)
PyStr(val) ==
    CASE val.t = "bool" -> IF val.b THEN "True" ELSE "False"
      [] val.t = "int" -> IntStr(val.i)
      [] val.t = "list" -> "[" \o JoinInts(val.l) \o "]"
      [] val.t = "dict" -> "{}"
      [] val.t = "NoneType" -> "None"
      [] OTHER -> val.s

\* the text a keyword argument gets: lines 638-641, 662-665, 694-699
ArgText(val) == IF val.t = "str" THEN "'" \o val.s \o "'" ELSE PyStr(val)

Arg(key, text) == [k |-> key, v |-> text]

\* the keyword arguments as the code concatenates them: "k=v, k=v"
RECURSIVE JoinArgs(_)
JoinArgs(args) ==
    IF args = <<>> THEN ""
    ELSE IF Len(args) = 1 THEN args[1].k \o "=" \o args[1].v
    ELSE args[1].k \o "=" \o args[1].v \o ", " \o JoinArgs(Tail(args))

\* text is the line as written into the script, without its newline
Import(name) ==
    [kind |-> "import", target |-> name, ctor |-> "", args |-> <<>>,
     text |-> "from chemsh import " \o name]
Assign(target, ctor, args) ==
    [kind |-> "assign", target |-> target, ctor |-> ctor, args |-> args,
     text |-> target \o " = " \o ctor \o "(" \o JoinArgs(args) \o ")"]
Call(text) ==
    [kind |-> "call", target |-> text, ctor |-> "", args |-> <<>>, text |-> text]

\* get_qm_theory_key: lines 520-548
get_qm_theory_key(theory) ==
    CASE theory = "CASTEP" -> "CASTEP"
      [] theory = "CP2K" -> "CP2K"
      [] theory = "DFTBP" -> "DFTBplus"
      [] theory = "FHI_AIMS" -> "FHIaims"
      [] theory = "GAMESS_UK" -> "GAMESS_UK"
      [] theory = "GAUSSIAN" -> "Gaussian"
      [] theory = "LSDALTON" -> "LSDalton"
      [] theory = "MNDO" -> "MNDO"
      [] theory = "MOLPRO" -> "Molpro"
      [] theory = "NWCHEM" -> "NWChem"
      [] theory = "ORCA" -> "ORCA"
      [] theory = "PYSCF" -> "PySCF"
      [] theory = "TURBOMOLE" -> "TURBOMOLE"
      [] OTHER -> ""

\* get_mm_theory_key: lines 565-572
get_mm_theory_key(theory) ==
    CASE theory = "DL_POLY" -> "DL_POLY"
      [] theory = "GULP" -> "GULP"
      [] theory = "NAMD" -> "NAMD"
      [] OTHER -> ""

\* ParamArgs that never skips 'theory'
RECURSIVE ParamArgs_KeepTheory(_, _)
ParamArgs_KeepTheory(d, skip) ==
    IF d = <<>> THEN <<>>
    ELSE <<Arg(d[1].k, ArgText(d[1].v))>> \o ParamArgs_KeepTheory(Tail(d), skip)

\* the loops of lines 634-641, 658-665 and 693-699: one keyword argument
\* per key of the Dict, in its order, 'theory' skipped when skip is set
RECURSIVE ParamArgs(_, _)
ParamArgs(d, skip) ==
    IF d = <<>> THEN <<>>
    ELSE IF skip /\ d[1].k = "theory" THEN ParamArgs(Tail(d), skip)
    ELSE <<Arg(d[1].k, ArgText(d[1].v))>> \o ParamArgs(Tail(d), skip)

qmmm_chk(inp) == "qm_parameters" \in inp.has /\ "mm_parameters" \in inp.has

\* lines 613-618
StructureStatements(inp) ==
    LET fname == IF inp.structure.type = "SinglefileData"
                 THEN inp.structure.filename ELSE FILE_TMP_STRUCTURE
    IN  <<Import("Fragment"),
          Assign("structure", "Fragment", <<Arg("coords", "'" \o fname \o "'")>>)>>

\* lines 622-646
QmStatements(inp) ==
    LET qm_theory == Upper(DictGet(inp.qm_parameters, "theory", VNone).s)
        qm_theory_key == get_qm_theory_key(qm_theory)
        params == ParamArgs(inp.qm_parameters, TRUE)
    IN  IF "qm_parameters" \in inp.has /\ qm_theory # "NONE"
        THEN <<Import(qm_theory_key),
               \* line 643: param_str[1:] drops the comma and keeps the space
               IF qmmm_chk(inp)
               THEN [Assign("qmtheory", qm_theory_key, params) EXCEPT
                        !.text = "qmtheory = " \o qm_theory_key \o "("
                                 \o (IF params = <<>> THEN ""
                                     ELSE " " \o JoinArgs(params)) \o ")"]
               ELSE Assign("qmtheory", qm_theory_key,
                           <<Arg("frag", "structure")>> \o params)>>
        ELSE <<>>

\* whether lines 648-673 read self.inputs.force_field_file
MmNeedsForceField(inp) ==
    /\ "mm_parameters" \in inp.has
    /\ Upper(DictGet(inp.mm_parameters, "theory", VNone).s) # "NONE"

\* lines 648-673
MmStatements(inp) ==
    LET mm_theory == Upper(DictGet(inp.mm_parameters, "theory", VNone).s)
        mm_theory_key == get_mm_theory_key(mm_theory)
        params == ParamArgs(inp.mm_parameters, TRUE)
        ff == Arg("ff", "'" \o inp.force_field_file.filename \o "'")
    IN  IF MmNeedsForceField(inp)
        THEN <<Import(mm_theory_key),
               IF qmmm_chk(inp) THEN Assign("mmtheory", mm_theory_key, <<ff>> \o params)
               ELSE Assign("mmtheory", mm_theory_key,
                           <<Arg("frag", "structure"), ff>> \o params)>>
        ELSE <<>>

\* theory_str without the QM/MM branch
theory_str_NoCoupling(inp) ==
    IF "mm_parameters" \in inp.has THEN "mmtheory" ELSE "qmtheory"

\* lines 676-685: the name the task is given as its theory
theory_str(inp) ==
    IF qmmm_chk(inp) THEN "qmmm"
    ELSE IF "mm_parameters" \in inp.has THEN "mmtheory"
    ELSE "qmtheory"

\* lines 676-681
QmmmStatements(inp) ==
    IF qmmm_chk(inp)
    THEN <<Import("QMMM"),
           Assign("qmmm", "QMMM",
                  <<Arg("frag", "structure"), Arg("qm", "qmtheory"),
                    Arg("mm", "mmtheory"),
                    Arg("qm_region",
                        PyStr(DictGet(inp.qmmm_parameters, "qm_region",
                                      VList(<<>>))))>>)>>
    ELSE <<>>

\* TaskStatements whose Opt gets a default maxcycle when none is supplied
TaskStatements_OptDefault(inp) ==
    IF "optimisation_parameters" \in inp.has
    THEN <<Import("Opt"),
           Assign("job", "Opt",
                  <<Arg("theory", theory_str(inp))>>
                      \o ParamArgs(inp.optimisation_parameters, FALSE)
                      \o (IF "maxcycle" \in Keys(inp.optimisation_parameters)
                          THEN <<>> ELSE <<Arg("maxcycle", "100")>>))>>
    ELSE <<Import("SP"),
           Assign("job", "SP",
                  <<Arg("theory", theory_str(inp)),
                    Arg("gradients",
                        PyStr(DictGet(IF "calculation_parameters" \in inp.has
                                      THEN inp.calculation_parameters ELSE <<>>,
                                      "gradients", VBool(FALSE)))),
                    Arg("hessian",
                        PyStr(DictGet(IF "calculation_parameters" \in inp.has
                                      THEN inp.calculation_parameters ELSE <<>>,
                                      "hessian", VBool(FALSE))))>>)>>

\* TaskStatements whose SP carries only the flags that were supplied
TaskStatements_SuppliedOnly(inp) ==
    IF "optimisation_parameters" \in inp.has
    THEN <<Import("Opt"),
           Assign("job", "Opt",
                  <<Arg("theory", theory_str(inp))>>
                      \o ParamArgs(inp.optimisation_parameters, FALSE))>>
    ELSE <<Import("SP"),
           Assign("job", "SP",
                  <<Arg("theory", theory_str(inp))>>
                      \o ParamArgs(IF "calculation_parameters" \in inp.has
                                   THEN inp.calculation_parameters ELSE <<>>,
                                   FALSE))>>

\* lines 689-713
TaskStatements(inp) ==
    IF "optimisation_parameters" \in inp.has
    THEN <<Import("Opt"),
           Assign("job", "Opt",
                  <<Arg("theory", theory_str(inp))>>
                      \o ParamArgs(inp.optimisation_parameters, FALSE))>>
    ELSE LET calculation_parameters ==
                 IF "calculation_parameters" \in inp.has
                 THEN inp.calculation_parameters ELSE <<>>
         IN  <<Import("SP"),
               Assign("job", "SP",
                      <<Arg("theory", theory_str(inp)),
                        Arg("gradients",
                            PyStr(DictGet(calculation_parameters, "gradients",
                                          VBool(FALSE)))),
                        Arg("hessian",
                            PyStr(DictGet(calculation_parameters, "hessian",
                                          VBool(FALSE))))>>)>>

\* the exception chemsh_script_generator raises on these inputs ("" when it
\* returns): reading an input port that was not supplied is an
\* AttributeError (lines 668, 672 and 680)
GeneratorRaises(inp) ==
    IF MmNeedsForceField(inp) /\ "force_field_file" \notin inp.has
    THEN "AttributeError"
    ELSE IF qmmm_chk(inp) /\ "qmmm_parameters" \notin inp.has
    THEN "AttributeError"
    ELSE ""

\* lines 704-706: a single point without calculation_parameters assigns
\* self.inputs.calculation_parameters = Dict(dict={}).  The assignment sets
\* an attribute of the inputs object, which self.inputs.calculation_parameters
\* reads from then on; the keys of the mapping stay as they were.
InputsAfterRender(inp) ==
    IF "optimisation_parameters" \notin inp.has
        /\ "calculation_parameters" \notin inp.has
    THEN [inp EXCEPT !.assigned = @ \cup {"calculation_parameters"}]
    ELSE inp

\* the script chemsh_script_generator returns
chemsh_script_generator(inp) ==
    StructureStatements(inp) \o QmStatements(inp) \o MmStatements(inp)
        \o QmmmStatements(inp) \o TaskStatements(inp)
        \o <<Call("job.run()"), Call("job.result.save()")>>

\* _build_process_label: lines 586-598
theory_key(inp) ==
    IF "qm_parameters" \in inp.has
    THEN IF "mm_parameters" \in inp.has THEN "_(QM/MM)" ELSE "_(QM)"
    ELSE "_(MM)"

build_process_label(inp) ==
    IF "optimisation_parameters" \in inp.has
    THEN "ChemShell_Geometry_Optimisation" \o theory_key(inp)
    ELSE "ChemShell_Single_Point_Calculation" \o theory_key(inp)

\* prepare_for_submission, lines 752-785: the CalcInfo
CopyEntry(port, name) == [uuid |-> port, src |-> name, dst |-> name]

\* retrieve_list that tests the mapping's truth value, not its presence
retrieve_list_NonEmpty(inp) ==
    <<FILE_STDOUT, FILE_RESULTS>>
        \o (IF "optimisation_parameters" \in inp.has
               /\ inp.optimisation_parameters # <<>>
            THEN <<FILE_DLFIND>> ELSE <<>>)

retrieve_list(inp) ==
    <<FILE_STDOUT, FILE_RESULTS>>
        \o (IF "optimisation_parameters" \in inp.has THEN <<FILE_DLFIND>> ELSE <<>>)

local_copy_list(inp) ==
    (IF inp.structure.type = "StructureData" THEN <<>>
     ELSE <<CopyEntry("structure", inp.structure.filename)>>)
        \o (IF "force_field_file" \in inp.has
            THEN <<CopyEntry("force_field_file", inp.force_field_file.filename)>>
            ELSE <<>>)

\* FilesWritten without the temporary structure file
FilesWritten_ScriptOnly(inp) == {FILE_SCRIPT}

\* prepare_for_submission, lines 736-737 and 758-760: the files written
FilesWritten(inp) ==
    {FILE_SCRIPT}
        \cup (IF inp.structure.type = "StructureData" THEN {FILE_TMP_STRUCTURE} ELSE {})

----------------------------------------------------------------------------
(* The content of result.json.  top is what json.loads makes of the text:  *)
(* "invalid" (not JSON), "null", "num", "list" (JSON, but no record) or    *)
(* "dict" (a record with the optional keys energy, gradients, hessian).    *)
(* A JSON value is [t, n, s, elems]; the elements of an array are values   *)
(* whose own elems are left empty.                                         *)

JAbsent == [t |-> "absent", n |-> 0, s |-> "", elems |-> <<>>]
JNull == [t |-> "null", n |-> 0, s |-> "", elems |-> <<>>]
JNum(x) == [t |-> "num", n |-> x, s |-> "", elems |-> <<>>]
JStr(x) == [t |-> "str", n |-> 0, s |-> x, elems |-> <<>>]
JList(x) == [t |-> "list", n |-> 0, s |-> "", elems |-> x]
JDict == [t |-> "dict", n |-> 0, s |-> "", elems |-> <<>>]
\* a nested numeric array: rectangular, or with rows of unequal length
JMatrix == [t |-> "list", n |-> 0, s |-> "matrix", elems |-> <<>>]
JRagged == [t |-> "list", n |-> 0, s |-> "ragged", elems |-> <<>>]

\* a Python evaluation: the value, or the exception it raised
Ok(val) == [exc |-> "", val |-> val]
Raise(name) == [exc |-> name, val |-> JAbsent]

\* json.loads(self.retrieved.get_object_content(FILE_RESULTS))
JsonLoads(c) ==
    IF c.top = "invalid" THEN Raise("JSONDecodeError") ELSE Ok(JAbsent)

\* results[key] for key in energy, gradients, hessian
GetItem(c, key) ==
    IF c.top # "dict" THEN Raise("TypeError")
    ELSE IF c[key].t = "absent" THEN Raise("KeyError")
    ELSE Ok(c[key])

\* the first character of the strings the model uses
FirstChar(str) ==
    CASE str = "abc" -> "a"
      [] str = "7" -> "7"
      [] OTHER -> str

\* value[-1] in the place of value[0]
GetItem0_Last(val) ==
    CASE val.t = "list" ->
            IF val.elems = <<>> THEN Raise("IndexError")
            ELSE Ok(val.elems[Len(val.elems)])
      [] val.t = "str" ->
            IF val.s = "" THEN Raise("IndexError") ELSE Ok(JStr(FirstChar(val.s)))
      [] val.t = "dict" -> Raise("KeyError")
      [] OTHER -> Raise("TypeError")

\* value[0]
GetItem0(val) ==
    CASE val.t = "list" ->
            IF val.elems = <<>> THEN Raise("IndexError") ELSE Ok(val.elems[1])
      [] val.t = "str" ->
            IF val.s = "" THEN Raise("IndexError") ELSE Ok(JStr(FirstChar(val.s)))
      [] val.t = "dict" -> Raise("KeyError")
      [] OTHER -> Raise("TypeError")

\* the number float() reads in a string, or -1 when it reads none
ParseFloat(str) ==
    CASE str = "7" -> 7
      [] OTHER -> -1

\* Float(value): the Float node of a JSON value
Float(val) ==
    CASE val.t = "num" -> Ok(val)
      [] val.t = "str" ->
            IF ParseFloat(val.s) >= 0 THEN Ok(JNum(ParseFloat(val.s)))
            ELSE Raise("ValueError")
      [] OTHER -> Raise("TypeError")

\* numpy.array(value) of a gradients or hessian value: a rectangular nested
\* array converts, a ragged one raises ValueError
NumpyArray(val) ==
    IF val.t = "list" /\ val.s = "ragged" THEN Raise("ValueError") ELSE Ok(val)

----------------------------------------------------------------------------
(* ChemShellParser.parse: parsers.py 17-75.  A run is threaded through a   *)
(* record [outputs, calls, exit, exc]: exit is the status of the ExitCode  *)
(* returned (-1 while running), exc the exception that left parse.         *)

NoOutputs == [x \in {} |-> JAbsent]

\* output nodes: a Float, an ArrayData (names of its arrays, in order) and
\* a SinglefileData (its filename)
FloatNode(x) == [type |-> "Float", value |-> x, arrays |-> <<>>, filename |-> ""]
ArrayData(names) == [type |-> "ArrayData", value |-> 0, arrays |-> names, filename |-> ""]
SinglefileData(name) == [type |-> "SinglefileData", value |-> 0, arrays |-> <<>>, filename |-> name]

Running(run) == run.exit = -1 /\ run.exc = ""

\* self.out(label, node)
Out(run, label, node) ==
    [run EXCEPT !.outputs = [x \in DOMAIN run.outputs \cup {label} |->
                                IF x = label THEN node ELSE run.outputs[x]],
                !.calls = Append(run.calls, label)]

Return(run, status) == [run EXCEPT !.exit = status]

Propagate(run, name) == [run EXCEPT !.exc = name]

\* Float(results["energy"][0]), left to right
EnergyExpr(c) ==
    LET item == GetItem(c, "energy")
        first == IF item.exc = "" THEN GetItem0(item.val) ELSE item
    IN  IF first.exc = "" THEN Float(first.val) ELSE first

\* numpy.array(results[key])
ArrayExpr(c, key) ==
    LET item == GetItem(c, key)
    IN  IF item.exc = "" THEN NumpyArray(item.val) ELSE item

\* CheckFiles with the two checks in the other order
CheckFiles_ResultsFirst(run, ret) ==
    IF FILE_RESULTS \notin ret
    THEN Return(run, exit_codes.ERROR_RESULTS_FILE_NOT_FOUND)
    ELSE IF FILE_STDOUT \notin ret
    THEN Return(run, exit_codes.ERROR_STDOUT_NOT_FOUND)
    ELSE run

\* lines 19-22: the two retrieved-file checks
CheckFiles(run, ret) ==
    IF FILE_STDOUT \notin ret THEN Return(run, exit_codes.ERROR_STDOUT_NOT_FOUND)
    ELSE IF FILE_RESULTS \notin ret
    THEN Return(run, exit_codes.ERROR_RESULTS_FILE_NOT_FOUND)
    ELSE run

\* lines 24-27: read the results file
LoadResults(run, c) ==
    IF ~Running(run) THEN run
    ELSE IF JsonLoads(c).exc # "" THEN Propagate(run, JsonLoads(c).exc)
    ELSE run

\* lines 29-35: extract the final energy.  KeyError and ValueError are
\* caught; ModificationNotAllowed is re-raised and every other exception
\* was never caught, so both leave parse.
ExtractEnergy(run, c) ==
    IF ~Running(run) THEN run
    ELSE LET e == EnergyExpr(c)
         IN  IF e.exc = "" THEN Out(run, "energy", FloatNode(e.val.n))
             ELSE IF e.exc \in {"KeyError", "ValueError"}
             THEN Return(run, exit_codes.ERROR_MISSING_FINAL_ENERGY)
             ELSE Propagate(run, e.exc)

\* ExtractGradients that looks for the key, not at the flag's value
ExtractGradients_KeyOnly(run, c, node_inputs) ==
    IF ~Running(run) THEN run
    ELSE IF "calculation_parameters" \in node_inputs.has
            /\ "gradients" \in Keys(node_inputs.calculation_parameters)
    THEN LET g == ArrayExpr(c, "gradients")
         IN  IF g.exc = "" THEN Out(run, "gradients", ArrayData(<<"gradients">>))
             ELSE IF g.exc \in {"KeyError", "ValueError"}
             THEN Return(run, exit_codes.ERROR_MISSING_GRADIENTS)
             ELSE Propagate(run, g.exc)
    ELSE run

\* lines 38-47: gradients, when calculation_parameters asks for them
ExtractGradients(run, c, node_inputs) ==
    IF ~Running(run) THEN run
    ELSE IF "calculation_parameters" \in node_inputs.has
            /\ Truthy(DictGet(node_inputs.calculation_parameters,
                              "gradients", VBool(FALSE)))
    THEN LET g == ArrayExpr(c, "gradients")
         IN  IF g.exc = "" THEN Out(run, "gradients", ArrayData(<<"gradients">>))
             ELSE IF g.exc \in {"KeyError", "ValueError"}
             THEN Return(run, exit_codes.ERROR_MISSING_GRADIENTS)
             ELSE Propagate(run, g.exc)
    ELSE run

\* ArrayData.set_array(name, array) on a node already in self.outputs
SetArray(run, label, name) ==
    [run EXCEPT !.outputs[label].arrays = Append(@, name)]

\* ExtractHessian that always registers an ArrayData of its own
ExtractHessian_OwnNode(run, c, node_inputs) ==
    IF ~Running(run) THEN run
    ELSE IF "calculation_parameters" \in node_inputs.has
            /\ Truthy(DictGet(node_inputs.calculation_parameters,
                              "hessian", VBool(FALSE)))
    THEN LET h == ArrayExpr(c, "hessian")
         IN  IF h.exc = "" THEN Out(run, "gradients", ArrayData(<<"hessian">>))
             ELSE IF h.exc \in {"KeyError", "ValueError"}
             THEN Return(run, exit_codes.ERROR_MISSING_GRADIENTS)
             ELSE Propagate(run, h.exc)
    ELSE run

\* lines 48-59: the Hessian, when calculation_parameters asks for it
ExtractHessian(run, c, node_inputs) ==
    IF ~Running(run) THEN run
    ELSE IF "calculation_parameters" \in node_inputs.has
            /\ Truthy(DictGet(node_inputs.calculation_parameters,
                              "hessian", VBool(FALSE)))
    THEN LET h == ArrayExpr(c, "hessian")
         IN  IF h.exc = ""
             THEN IF "gradients" \in DOMAIN run.outputs
                  THEN SetArray(run, "gradients", "hessian")
                  ELSE Out(run, "gradients", ArrayData(<<"hessian">>))
             ELSE IF h.exc \in {"KeyError", "ValueError"}
             THEN Return(run, exit_codes.ERROR_MISSING_GRADIENTS)
             ELSE Propagate(run, h.exc)
    ELSE run

\* ExtractStructure that tests the mapping's truth value, not its presence
ExtractStructure_Truthy(run, ret, node_inputs) ==
    IF ~Running(run) THEN run
    ELSE IF "optimisation_parameters" \in node_inputs.has
            /\ node_inputs.optimisation_parameters # <<>>
    THEN IF FILE_DLFIND \in ret
         THEN Out(run, "optimised_structure", SinglefileData(FILE_DLFIND))
         ELSE Return(run, exit_codes.ERROR_MISSING_OPTIMISED_STRUCTURE_FILE)
    ELSE run

\* lines 61-73: the optimised structure of a geometry optimisation
ExtractStructure(run, ret, node_inputs) ==
    IF ~Running(run) THEN run
    ELSE IF "optimisation_parameters" \in node_inputs.has
    THEN IF FILE_DLFIND \in ret
         THEN Out(run, "optimised_structure", SinglefileData(FILE_DLFIND))
         ELSE Return(run, exit_codes.ERROR_MISSING_OPTIMISED_STRUCTURE_FILE)
    ELSE run

\* line 75
ReturnSuccess(run) == IF Running(run) THEN Return(run, 0) ELSE run

\* ChemShellParser.parse as a whole
ParseRun(ret, c, node_inputs) ==
    LET r0 == [outputs |-> NoOutputs, calls |-> <<>>, exit |-> -1, exc |-> ""]
        r1 == CheckFiles(r0, ret)
        r2 == LoadResults(r1, c)
        r3 == ExtractEnergy(r2, c)
        r4 == ExtractGradients(r3, c, node_inputs)
        r5 == ExtractHessian(r4, c, node_inputs)
        r6 == ExtractStructure(r5, ret, node_inputs)
    IN  ReturnSuccess(r6)

----------------------------------------------------------------------------
(* The inputs of a job.  has is the set of supplied ports ("x" in          *)
(* self.inputs); the field of a port that was not supplied is empty.       *)

File(name) == [type |-> "SinglefileData", filename |-> name]
StructureData == [type |-> "StructureData", filename |-> ""]
NoFile == [type |-> "", filename |-> ""]

\* has: the ports the mapping self.inputs holds; assigned: the names the
\* code has set as attributes of the self.inputs object
Inputs(structure, calc, opt, qm, mm, ff, qmmm) ==
    [assigned |-> {},
     has |-> {"structure"}
                \cup {"calculation_parameters" : x \in calc}
                \cup {"optimisation_parameters" : x \in opt}
                \cup {"qm_parameters" : x \in qm}
                \cup {"mm_parameters" : x \in mm}
                \cup {"force_field_file" : x \in ff}
                \cup {"qmmm_parameters" : x \in qmmm},
     structure |-> structure,
     calculation_parameters |-> IF calc = {} THEN <<>> ELSE CHOOSE x \in calc : TRUE,
     optimisation_parameters |-> IF opt = {} THEN <<>> ELSE CHOOSE x \in opt : TRUE,
     qm_parameters |-> IF qm = {} THEN <<>> ELSE CHOOSE x \in qm : TRUE,
     mm_parameters |-> IF mm = {} THEN <<>> ELSE CHOOSE x \in mm : TRUE,
     force_field_file |-> IF ff = {} THEN NoFile ELSE CHOOSE x \in ff : TRUE,
     qmmm_parameters |-> IF qmmm = {} THEN <<>> ELSE CHOOSE x \in qmmm : TRUE]

\* each optional port is absent ({}) or holds one value ({v})
Optional(S) == {{}} \cup {{v} : v \in S}

Structures == {File("water.cjson"), File("water.xyz"), File("water.pdb"), StructureData}

CalcParams ==
    {<<>>,
     <<Item("gradients", VBool(TRUE))>>,
     <<Item("hessian", VBool(TRUE)), Item("gradients", VBool(FALSE))>>,
     <<Item("gradients", VInt(1))>>,
     <<Item("gradient", VBool(TRUE))>>}

OptParams ==
    {<<>>,
     <<Item("maxcycle", VInt(100))>>,
     <<Item("algorithm", VStr("lbfgs")), Item("maxcycle", VInt(100))>>,
     <<Item("maxcycle", VInt(100)), Item("algorithm", VStr("lbfgs"))>>,
     <<Item("maxcycles", VInt(100))>>}

QmParams ==
    {<<Item("theory", VStr("NWChem"))>>,
     <<Item("theory", VStr("nwchem")), Item("method", VStr("HF"))>>,
     <<Item("method", VStr("dft")), Item("theory", VStr("ORCA")),
       Item("scftype", VStr("rhf")), Item("maxiter", VInt(50))>>,
     <<Item("theory", VStr("none"))>>,
     <<Item("theory", VStr("NWChem")), Item("bogus_key", VInt(1))>>,
     <<Item("theory", VStr("NWChem")), Item("method", VStr("mp2"))>>,
     <<Item("theory", VStr("NWChem")), Item("direct", VStr("yes"))>>,
     <<Item("theory", VStr("amber"))>>,
     <<Item("method", VStr("HF"))>>}

MmParams ==
    {<<Item("theory", VStr("DL_POLY"))>>,
     <<Item("theory", VStr("dl_poly")), Item("rcut", VFloat("1.5")),
       Item("potential", VBool(TRUE))>>,
     <<Item("theory", VStr("none"))>>,
     <<Item("theory", VStr("GULP")), Item("binary", VBool(TRUE))>>,
     <<Item("pme_grid_sizes", VList(<<4, 4>>)), Item("theory", VStr("namd")),
       Item("binary", VBool(FALSE))>>}

ForceFields == {File("butanol.ff")}

QmmmParams == {<<Item("qm_region", VList(<<0, 1, 2>>))>>, <<>>}

----------------------------------------------------------------------------
(* Spec: one job from its inputs to the end of prepare_for_submission.     *)

NoCalcInfo == [retrieve_list |-> <<>>, local_copy_list |-> <<>>]
NoContent == [top |-> "none", energy |-> JAbsent, gradients |-> JAbsent,
              hessian |-> JAbsent]

Idle ==
    /\ script = <<>>
    /\ folder = {}
    /\ calc_info = NoCalcInfo
    /\ process_label = ""
    /\ error = Accept
    /\ retrieved = {}
    /\ content = NoContent
    /\ outputs = NoOutputs
    /\ out_calls = <<>>
    /\ exit_status = -1
    /\ raised = ""

Init ==
    /\ pc = "created"
    /\ \E structure \in Structures, calc \in Optional(CalcParams),
          opt \in Optional(OptParams), qm \in Optional(QmParams),
          mm \in Optional(MmParams), ff \in Optional(ForceFields),
          qmmm \in Optional(QmmmParams) :
            inputs = Inputs(structure, calc, opt, qm, mm, ff, qmmm)
    /\ Idle

\* the validators of the supplied ports, in the order define declares them
\* (lines 38-81); qmmm_parameters and force_field_file have none (85-97)
PortChecks(inp) ==
    <<validate_structure_file(inp.structure),
      IF "calculation_parameters" \in inp.has
      THEN validate_calculation_parameters(inp.calculation_parameters) ELSE Accept,
      IF "optimisation_parameters" \in inp.has
      THEN validate_optimisation_parameters(inp.optimisation_parameters) ELSE Accept,
      IF "qm_parameters" \in inp.has
      THEN validate_qm_parameters(inp.qm_parameters) ELSE Accept,
      IF "mm_parameters" \in inp.has
      THEN validate_mm_parameters(inp.mm_parameters) ELSE Accept>>

\* the first answer that is not None, or None
ValidateInputs(inp) ==
    LET checks == PortChecks(inp)
        failed == {n \in DOMAIN checks : checks[n] # Accept}
    IN  IF failed = {} THEN Accept
        ELSE checks[CHOOSE n \in failed : \A m \in failed : n <= m]

\* the process is created: its inputs are validated and, when they pass,
\* the node gets its process label
Validate ==
    /\ pc = "created"
    /\ LET answer == ValidateInputs(inputs)
       IN  /\ error' = answer
           /\ pc' = CASE answer.res = "None" -> "validated"
                      [] answer.res = "message" -> "rejected"
                      [] OTHER -> "excepted"
           /\ process_label' = IF answer.res = "None"
                               THEN build_process_label(inputs) ELSE ""
    /\ UNCHANGED <<inputs, script, folder, calc_info, retrieved, content,
                   outputs, out_calls, exit_status, raised>>

\* prepare_for_submission: lines 734-785
prepare_for_submission ==
    /\ pc = "validated"
    /\ IF GeneratorRaises(inputs) # ""
       THEN /\ pc' = "excepted"
            /\ error' = Raises(GeneratorRaises(inputs))
            /\ UNCHANGED <<inputs, script, folder, calc_info>>
       ELSE /\ pc' = "prepared"
            /\ script' = chemsh_script_generator(inputs)
            /\ inputs' = InputsAfterRender(inputs)
            /\ folder' = FilesWritten(inputs)
            /\ calc_info' = [retrieve_list |-> retrieve_list(inputs),
                             local_copy_list |-> local_copy_list(inputs)]
            /\ UNCHANGED error
    /\ UNCHANGED <<process_label, retrieved, content, outputs,
                   out_calls, exit_status, raised>>

\* a further call of chemsh_script_generator (lines 600-717) on the job
\* that was prepared
render_again ==
    /\ pc = "prepared"
    /\ pc' = "rendered"
    /\ script' = chemsh_script_generator(inputs)
    /\ inputs' = InputsAfterRender(inputs)
    /\ UNCHANGED <<folder, calc_info, process_label, error, retrieved, content,
                   outputs, out_calls, exit_status, raised>>

Next == Validate \/ prepare_for_submission \/ render_again

Spec == Init /\ [][Next]_vars

----------------------------------------------------------------------------
(* ParseSpec: a job that was submitted; the engine retrieves a file set    *)
(* and ChemShellParser.parse interprets it.                                *)

\* the task parameters of the jobs whose output is parsed
NodeCalcParams ==
    {<<>>,
     <<Item("gradients", VBool(TRUE))>>,
     <<Item("gradients", VBool(FALSE))>>,
     <<Item("hessian", VBool(TRUE))>>,
     <<Item("gradients", VBool(TRUE)), Item("hessian", VBool(TRUE))>>,
     <<Item("gradients", VBool(FALSE)), Item("hessian", VBool(TRUE))>>,
     <<Item("gradients", VBool(TRUE)), Item("hessian", VBool(FALSE))>>}

NodeOptParams == {<<>>, <<Item("maxcycle", VInt(100))>>}

\* elements of an 'energy' array, and the arrays up to MaxEnergyLen
EnergyElems == {JNum(-75), JNum(3), JStr("abc"), JStr("7")}

EnergyArrays ==
    UNION {[1..n -> EnergyElems] : n \in 0..MaxEnergyLen}

EnergyValues ==
    {JAbsent, JNull, JNum(-75), JStr("abc"), JStr(""), JDict}
        \cup {JList(a) : a \in EnergyArrays}

ArrayValues == {JAbsent, JMatrix, JRagged}

\* what result.json can hold
Contents ==
    {[top |-> k, energy |-> JAbsent, gradients |-> JAbsent, hessian |-> JAbsent] :
        k \in {"invalid", "null", "num", "list"}}
    \cup [top : {"dict"}, energy : EnergyValues, gradients : ArrayValues,
          hessian : ArrayValues]

RetrievableFiles == {FILE_STDOUT, FILE_RESULTS, FILE_DLFIND}

ParseInit ==
    /\ pc = "submitted"
    /\ \E calc \in Optional(NodeCalcParams), opt \in Optional(NodeOptParams) :
            inputs = Inputs(File("water.cjson"), calc, opt,
                            {<<Item("theory", VStr("NWChem"))>>}, {}, {}, {})
    /\ script = chemsh_script_generator(inputs)
    /\ folder = FilesWritten(inputs)
    /\ calc_info = [retrieve_list |-> retrieve_list(inputs),
                    local_copy_list |-> local_copy_list(inputs)]
    /\ process_label = build_process_label(inputs)
    /\ error = Accept
    /\ retrieved = {}
    /\ content = NoContent
    /\ outputs = NoOutputs
    /\ out_calls = <<>>
    /\ exit_status = -1
    /\ raised = ""

\* the driver has run; the engine retrieves what it finds.  result.json has
\* a content only when it is among the retrieved files.
Retrieve ==
    /\ pc = "submitted"
    /\ \E ret \in SUBSET RetrievableFiles :
        /\ retrieved' = ret
        /\ IF FILE_RESULTS \in ret
           THEN \E c \in Contents : content' = c
           ELSE content' = NoContent
    /\ pc' = "retrieved"
    /\ UNCHANGED <<inputs, script, folder, calc_info, process_label, error,
                   outputs, out_calls, exit_status, raised>>

\* ChemShellParser.parse: parsers.py 17-75
parse ==
    /\ pc = "retrieved"
    /\ LET run == ParseRun(retrieved, content, inputs)
       IN  /\ outputs' = run.outputs
           /\ out_calls' = run.calls
           /\ exit_status' = run.exit
           /\ raised' = run.exc
    /\ pc' = "parsed"
    /\ UNCHANGED <<inputs, script, folder, calc_info, process_label, error,
                   retrieved, content>>

ParseNext == Retrieve \/ parse

ParseSpec == ParseInit /\ [][ParseNext]_vars

----------------------------------------------------------------------------
(* What the claims about parse speak of, stated on the retrieved files,    *)
(* the results record and the inputs, independently of ParseRun.           *)

Parsed == pc = "parsed"

FailureCodes ==
    {ERROR_STDOUT_NOT_FOUND, ERROR_MISSING_FINAL_ENERGY,
     ERROR_MISSING_OPTIMISED_STRUCTURE_FILE, ERROR_RESULTS_FILE_NOT_FOUND,
     ERROR_MISSING_GRADIENTS}

Registered(label) == label \in DOMAIN outputs

FilesRetrieved == FILE_STDOUT \in retrieved /\ FILE_RESULTS \in retrieved

IsRecord == content.top = "dict"

\* a JSON value a number can be made of
Coercible(val) == val.t = "num" \/ (val.t = "str" /\ val.s \in {"7"})

\* the record has an 'energy' array whose first element is usable
EnergyUsable ==
    /\ IsRecord
    /\ content.energy.t = "list"
    /\ content.energy.elems # <<>>
    /\ Coercible(content.energy.elems[1])

\* the record lacks a usable energy: no key, or no coercible first element
EnergyMissing ==
    /\ IsRecord
    /\ \/ content.energy.t = "absent"
       \/ content.energy.t = "list" /\ content.energy.elems = <<>>
       \/ content.energy.t = "list" /\ content.energy.elems # <<>>
            /\ ~Coercible(content.energy.elems[1])

\* calculation_parameters asks for the array (flag supplied and True)
Requested(flag) ==
    /\ "calculation_parameters" \in inputs.has
    /\ \E n \in DOMAIN inputs.calculation_parameters :
          inputs.calculation_parameters[n] = Item(flag, VBool(TRUE))

ArrayUsable(key) == IsRecord /\ content[key] = JMatrix

ArraysPass ==
    /\ Requested("gradients") => ArrayUsable("gradients")
    /\ Requested("hessian") => ArrayUsable("hessian")

Optimisation == "optimisation_parameters" \in inputs.has

\* the exit code of the first failing check, in the order stdout, results
\* file, energy, gradients, Hessian, optimised structure
FirstFailingCheck ==
    IF FILE_STDOUT \notin retrieved THEN ERROR_STDOUT_NOT_FOUND
    ELSE IF FILE_RESULTS \notin retrieved THEN ERROR_RESULTS_FILE_NOT_FOUND
    ELSE IF ~EnergyUsable THEN ERROR_MISSING_FINAL_ENERGY
    ELSE IF Requested("gradients") /\ ~ArrayUsable("gradients")
    THEN ERROR_MISSING_GRADIENTS
    ELSE IF Requested("hessian") /\ ~ArrayUsable("hessian")
    THEN ERROR_MISSING_GRADIENTS
    ELSE IF Optimisation /\ FILE_DLFIND \notin retrieved
    THEN ERROR_MISSING_OPTIMISED_STRUCTURE_FILE
    ELSE 0

\* how often self.out was called for a label
Registrations(label) == Cardinality({n \in DOMAIN out_calls : out_calls[n] = label})

----------------------------------------------------------------------------
(* Claims about ChemShellParser.parse, checked under ParseSpec.            *)

\* C1: whenever parse ends with a failure exit code, no output has been
\* registered in that run (in particular not 'energy').
C1_NoOutputOnFailure ==
    (Parsed /\ exit_status \in FailureCodes) => out_calls = <<>>

\* C2: parse always ends with an ExitCode whose status is 0 or one of the
\* five failure codes, which are pairwise distinct and non-zero; it never
\* ends with an uncaught error.
C2_OutcomeExhaustive ==
    /\ Cardinality(FailureCodes) = 5
    /\ 0 \notin FailureCodes
    /\ Parsed => (raised = "" /\ exit_status \in {0} \cup FailureCodes)

\* C6: with output.log and result.json retrieved, a record without a usable
\* energy (no key, an empty array, a first element that is no number) gives
\* ERROR_MISSING_FINAL_ENERGY and no 'energy' output.
C6_MissingEnergy ==
    (Parsed /\ FilesRetrieved /\ EnergyMissing)
        => (exit_status = ERROR_MISSING_FINAL_ENERGY /\ ~Registered("energy"))

\* C7: the checks are applied in the order stdout, results file, energy,
\* gradients, Hessian, optimised structure, and the exit code returned is
\* that of the first check that fails; output.log absent always gives
\* ERROR_STDOUT_NOT_FOUND, output.log present without result.json always
\* gives ERROR_RESULTS_FILE_NOT_FOUND.
C7_CheckOrder ==
    /\ (Parsed /\ FILE_STDOUT \notin retrieved)
          => exit_status = ERROR_STDOUT_NOT_FOUND
    /\ (Parsed /\ FILE_STDOUT \in retrieved /\ FILE_RESULTS \notin retrieved)
          => exit_status = ERROR_RESULTS_FILE_NOT_FOUND
    /\ (Parsed /\ exit_status # -1) => exit_status = FirstFailingCheck

\* C7 witness: gradients were requested and are missing, the punch file of
\* the optimisation is missing too, and parse answered ERROR_MISSING_GRADIENTS
C7_Witness ==
    /\ Parsed /\ FilesRetrieved /\ EnergyUsable
    /\ Requested("gradients") /\ content.gradients = JAbsent
    /\ Optimisation /\ FILE_DLFIND \notin retrieved
    /\ exit_status = ERROR_MISSING_GRADIENTS

C9_OptimisedStructure ==
    /\ (Parsed /\ FilesRetrieved /\ EnergyUsable /\ ArraysPass /\ Optimisation)
          => IF FILE_DLFIND \in retrieved
             THEN /\ Registered("optimised_structure")
                  /\ outputs["optimised_structure"] = SinglefileData("_dl_find.pun")
                  /\ exit_status = 0
             ELSE /\ ~Registered("optimised_structure")
                  /\ exit_status = ERROR_MISSING_OPTIMISED_STRUCTURE_FILE
    /\ (Parsed /\ ~Optimisation)
          => /\ ~Registered("optimised_structure")
             /\ exit_status # ERROR_MISSING_OPTIMISED_STRUCTURE_FILE

\* C9 witness: an empty optimisation_parameters mapping, the punch file
\* retrieved and registered
C9_Witness ==
    /\ Parsed /\ Optimisation /\ inputs.optimisation_parameters = <<>>
    /\ Registered("optimised_structure") /\ exit_status = 0

\* C10: the 'gradients' slot is registered at most once in a run; with
\* both arrays requested and present its node holds 'gradients' then
\* 'hessian', with only the Hessian requested 'hessian', with only the
\* gradients requested 'gradients'.
C10_SharedArrayNode ==
    Parsed =>
        /\ Registrations("gradients") <= 1
        /\ (FilesRetrieved /\ EnergyUsable /\ ArraysPass) =>
            /\ (Requested("gradients") /\ Requested("hessian"))
                  => /\ Registered("gradients")
                     /\ outputs["gradients"].arrays = <<"gradients", "hessian">>
            /\ (~Requested("gradients") /\ Requested("hessian"))
                  => /\ Registered("gradients")
                     /\ outputs["gradients"].arrays = <<"hessian">>
            /\ (Requested("gradients") /\ ~Requested("hessian"))
                  => /\ Registered("gradients")
                     /\ outputs["gradients"].arrays = <<"gradients">>

\* C10 witness: both arrays requested and present, one node holding both
C10_Witness ==
    /\ Parsed /\ Requested("gradients") /\ Requested("hessian")
    /\ Registered("gradients")
    /\ outputs["gradients"].arrays = <<"gradients", "hessian">>
    /\ Registrations("gradients") = 1

----------------------------------------------------------------------------
(* Claims about the input composer, checked under Spec.                    *)

Supplied(port) == port \in inputs.has

\* the statements of the script that construct a theory object
TheoryStatements ==
    {n \in DOMAIN script :
        script[n].kind = "assign" /\ script[n].target \in {"qmtheory", "mmtheory", "qmmm"}}

\* the task statements of the script (job = SP(...) or job = Opt(...))
TaskStatementsOf ==
    {n \in DOMAIN script : script[n].kind = "assign" /\ script[n].target = "job"}

\* C3: a validated configuration with only a QM theory renders, for every
\* accepted 'theory' value, exactly one theory-construction statement; it
\* assigns qmtheory, is bound to the structure (frag=structure), and the
\* task statement references theory=qmtheory.
C3_QmOnlyOneTheory ==
    (pc = "prepared" /\ Supplied("qm_parameters") /\ ~Supplied("mm_parameters"))
        => /\ Cardinality(TheoryStatements) = 1
           /\ \A n \in TheoryStatements :
                /\ script[n].target = "qmtheory"
                /\ script[n].args # <<>>
                /\ script[n].args[1] = Arg("frag", "structure")
           /\ \A n \in TaskStatementsOf :
                script[n].args[1] = Arg("theory", "qmtheory")

\* C4: a configuration with qm_parameters and mm_parameters but without
\* qmmm_parameters is rejected with a configuration error before any file
\* I/O: it never passes validation, and neither chemshell_input.py nor
\* input_structure.xyz is written.
C4_MissingQmmmRejected ==
    (Supplied("qm_parameters") /\ Supplied("mm_parameters")
        /\ ~Supplied("qmmm_parameters"))
        => /\ pc \notin {"validated", "prepared"}
           /\ FILE_SCRIPT \notin folder
           /\ FILE_TMP_STRUCTURE \notin folder

\* C5: a configuration with neither qm_parameters nor mm_parameters is
\* rejected: it never passes validation and is never rendered into a
\* script, a file manifest or a process label.
C5_TheoryRequired ==
    (~Supplied("qm_parameters") /\ ~Supplied("mm_parameters"))
        => /\ pc \notin {"validated", "prepared"}
           /\ script = <<>>
           /\ calc_info = NoCalcInfo
           /\ process_label = ""

----------------------------------------------------------------------------
(* Claims about a successful parse, checked under ParseSpec.               *)

\* the number a JSON element stands for
NumberOf(elem) == IF elem.t = "num" THEN elem.n ELSE 7

----------------------------------------------------------------------------
(* Claims about the rendered script and the file manifest, checked under   *)
(* Spec.                                                                   *)

Prepared == pc = "prepared"

\* the statements that assign a name
Assigning(name) ==
    {n \in DOMAIN script : script[n].kind = "assign" /\ script[n].target = name}

\* the theory a parameter mapping names, upper-cased ("" when it names none)
TheoryOf(d) ==
    IF \E n \in DOMAIN d : d[n].k = "theory" /\ d[n].v.t = "str"
    THEN Upper((CHOOSE it \in {d[n] : n \in DOMAIN d} : it.k = "theory").v.s)
    ELSE ""

HasArg(n, key) == \E a \in DOMAIN script[n].args : script[n].args[a].k = key

\* the Python literal of the lists the model uses
ListLiteral(l) ==
    CASE l = <<0, 1, 2>> -> "[0, 1, 2]"
      [] l = <<>> -> "[]"
      [] OTHER -> "?"

QmmmJob ==
    /\ Prepared /\ Supplied("qm_parameters") /\ Supplied("mm_parameters")
    /\ Supplied("qmmm_parameters")

\* C12: for every configuration with qm_parameters, mm_parameters and
\* qmmm_parameters, no statement constructing qmtheory or mmtheory has a
\* frag argument (and each theory other than NONE is constructed once);
\* the script has exactly one coupling statement, qmmm = QMMM(frag=structure,
\* qm=qmtheory, mm=mmtheory, qm_region=<list>), whose qm_region is the
\* literal of the list given in qmmm_parameters; the task statement
\* references theory=qmmm.
C12_QmmmCoupling ==
    QmmmJob =>
        /\ \A n \in Assigning("qmtheory") \cup Assigning("mmtheory") :
                ~HasArg(n, "frag")
        /\ TheoryOf(inputs.qm_parameters) # "NONE"
                => Cardinality(Assigning("qmtheory")) = 1
        /\ TheoryOf(inputs.mm_parameters) # "NONE"
                => Cardinality(Assigning("mmtheory")) = 1
        /\ Cardinality(Assigning("qmmm")) = 1
        /\ \A n \in Assigning("qmmm") :
                /\ script[n].ctor = "QMMM"
                /\ Len(script[n].args) = 4
                /\ script[n].args[1] = Arg("frag", "structure")
                /\ script[n].args[2] = Arg("qm", "qmtheory")
                /\ script[n].args[3] = Arg("mm", "mmtheory")
                /\ script[n].args[4].k = "qm_region"
                /\ \A i \in DOMAIN inputs.qmmm_parameters :
                      LET it == inputs.qmmm_parameters[i]
                      IN  (it.k = "qm_region" /\ it.v.t = "list")
                            => /\ script[n].args[4].v = ListLiteral(it.v.l)
                               /\ script[n].text =
                                     "qmmm = QMMM(frag=structure, qm=qmtheory, "
                                        \o "mm=mmtheory, qm_region="
                                        \o ListLiteral(it.v.l) \o ")"
        /\ Cardinality(TaskStatementsOf) = 1
        /\ \A n \in TaskStatementsOf :
                script[n].args[1] = Arg("theory", "qmmm")

\* C12 witness: a prepared QM/MM job with both theories constructed and
\* the coupling statement of the region [0, 1, 2]
C12_Witness ==
    /\ QmmmJob
    /\ Assigning("qmtheory") # {} /\ Assigning("mmtheory") # {}
    /\ \E n \in Assigning("qmmm") :
          script[n].text = "qmmm = QMMM(frag=structure, qm=qmtheory, "
                              \o "mm=mmtheory, qm_region=[0, 1, 2])"
    /\ \E n \in Assigning("job") : script[n].args[1].v = "qmmm"

\* the force-field file is among the files to stage
ForceFieldStaged ==
    /\ calc_info # NoCalcInfo
    /\ \E n \in DOMAIN calc_info.local_copy_list :
          calc_info.local_copy_list[n].uuid = "force_field_file"

MmJob ==
    /\ Prepared /\ Supplied("mm_parameters")
    /\ TheoryOf(inputs.mm_parameters) # "NONE"

\* C13: for every configuration with an MM theory other than NONE the MM
\* construction statement contains ff='<filename>' and the same file is an
\* entry of local_copy_list; an MM-only job binds the MM theory to the
\* structure and its task references theory=mmtheory; and the force-field
\* file is staged only when mm_parameters is an input.
C13_ForceField ==
    /\ MmJob =>
          /\ Cardinality(Assigning("mmtheory")) = 1
          /\ \A n \in Assigning("mmtheory") :
                \E a \in DOMAIN script[n].args :
                    script[n].args[a] =
                        Arg("ff", "'" \o inputs.force_field_file.filename \o "'")
          /\ \E n \in DOMAIN calc_info.local_copy_list :
                calc_info.local_copy_list[n] =
                    CopyEntry("force_field_file", inputs.force_field_file.filename)
    /\ (MmJob /\ ~Supplied("qm_parameters")) =>
          /\ \A n \in Assigning("mmtheory") :
                script[n].args[1] = Arg("frag", "structure")
          /\ \A n \in TaskStatementsOf :
                script[n].args[1] = Arg("theory", "mmtheory")
    /\ (Prepared /\ ForceFieldStaged) => Supplied("mm_parameters")

\* the file name the script's structure statement reads, without quotes
GeometryName ==
    IF inputs.structure.type = "SinglefileData"
    THEN inputs.structure.filename ELSE "input_structure.xyz"

\* the script's structure statement references that name
GeometryReferenced ==
    /\ Cardinality(Assigning("structure")) = 1
    /\ \A n \in Assigning("structure") :
          script[n].text = "structure = Fragment(coords='" \o GeometryName \o "')"

\* local_copy_list has an entry that stages a file under that name
GeometryInCopyList ==
    \E n \in DOMAIN calc_info.local_copy_list :
        /\ calc_info.local_copy_list[n].uuid = "structure"
        /\ calc_info.local_copy_list[n].dst = GeometryName

\* C14 as stated: for every configuration, file reference or embedded
\* structure, local_copy_list contains an entry for the geometry file under
\* the name the script's structure = Fragment(coords='<name>') statement
\* references.
C14_GeometryInCopyList ==
    Prepared => (GeometryReferenced /\ GeometryInCopyList)

\* C14 amended: the geometry file is always provided under the name the
\* script's structure statement references: a file reference is an entry
\* of local_copy_list under its own filename and nothing is written for
\* it; an embedded structure is written into the job folder as
\* input_structure.xyz and has no entry in local_copy_list.
C14_GeometryProvided ==
    Prepared =>
        /\ GeometryReferenced
        /\ IF inputs.structure.type = "SinglefileData"
           THEN /\ GeometryInCopyList
                /\ calc_info.local_copy_list[1] =
                        CopyEntry("structure", inputs.structure.filename)
                /\ FILE_TMP_STRUCTURE \notin folder
           ELSE /\ "input_structure.xyz" \in folder
                /\ ~\E n \in DOMAIN calc_info.local_copy_list :
                        calc_info.local_copy_list[n].uuid = "structure"

\* C14 witness: a prepared job with an embedded structure; the temporary
\* file is written and local_copy_list holds only the force-field file
C14_Witness ==
    /\ Prepared /\ inputs.structure = StructureData
    /\ FILE_TMP_STRUCTURE \in folder
    /\ Len(calc_info.local_copy_list) = 1
    /\ calc_info.local_copy_list[1].uuid = "force_field_file"

\* the task statement constructs an Opt
OptStatement == \E n \in TaskStatementsOf : script[n].ctor = "Opt"

\* C15: retrieve_list is exactly [output.log, result.json] when
\* optimisation_parameters is no input and exactly [output.log,
\* result.json, _dl_find.pun] when it is, an empty mapping included; the
\* punch file is requested exactly when the task statement is an Opt.
C15_RetrieveList ==
    Prepared =>
        /\ calc_info.retrieve_list =
              IF Supplied("optimisation_parameters")
              THEN <<"output.log", "result.json", "_dl_find.pun">>
              ELSE <<"output.log", "result.json">>
        /\ (\E n \in DOMAIN calc_info.retrieve_list :
                calc_info.retrieve_list[n] = "_dl_find.pun") <=> OptStatement

\* C15 witness: a prepared job whose optimisation_parameters is the empty
\* mapping; the task is an Opt and the punch file is retrieved
C15_Witness ==
    /\ Prepared /\ Supplied("optimisation_parameters")
    /\ inputs.optimisation_parameters = <<>>
    /\ OptStatement
    /\ calc_info.retrieve_list = <<"output.log", "result.json", "_dl_find.pun">>

\* the text of the optimiser arguments of the mappings the model uses
OptArgsText(opt) ==
    CASE opt = <<>> -> ""
      [] opt = <<Item("maxcycle", VInt(100))>> -> ", maxcycle=100"
      [] opt = <<Item("algorithm", VStr("lbfgs")), Item("maxcycle", VInt(100))>>
            -> ", algorithm='lbfgs', maxcycle=100"
      [] opt = <<Item("maxcycle", VInt(100)), Item("algorithm", VStr("lbfgs"))>>
            -> ", maxcycle=100, algorithm='lbfgs'"
      [] OTHER -> "?"

OptJob == Prepared /\ Supplied("optimisation_parameters")

\* C16: with optimisation_parameters the script has an Opt task statement
\* and no SP statement; after theory=<name> its arguments are exactly the
\* supplied keys with their supplied values, in the mapping's order, and
\* nothing else ({maxcycle: 100} on a QM job gives
\* job = Opt(theory=qmtheory, maxcycle=100)).
C16_OptStatement ==
    OptJob =>
        /\ Cardinality(TaskStatementsOf) = 1
        /\ ~\E n \in DOMAIN script : script[n].ctor = "SP" \/ script[n].target = "SP"
        /\ \A n \in TaskStatementsOf :
              /\ script[n].ctor = "Opt"
              /\ script[n].args[1].k = "theory"
              /\ script[n].args[1].v \in {"qmtheory", "mmtheory", "qmmm"}
              /\ Len(script[n].args) = 1 + Len(inputs.optimisation_parameters)
              /\ \A i \in DOMAIN inputs.optimisation_parameters :
                    script[n].args[i + 1].k = inputs.optimisation_parameters[i].k
              /\ script[n].text =
                    "job = Opt(theory=" \o script[n].args[1].v
                        \o OptArgsText(inputs.optimisation_parameters) \o ")"

\* C16 witness: a QM job optimised with {maxcycle: 100}
C16_Witness ==
    /\ OptJob
    /\ inputs.optimisation_parameters = <<Item("maxcycle", VInt(100))>>
    /\ \E n \in TaskStatementsOf :
          script[n].text = "job = Opt(theory=qmtheory, maxcycle=100)"

\* the text of a single-point flag: the supplied value, False when the
\* mapping or the key is missing
FlagText(flag) ==
    IF Requested(flag) THEN "True" ELSE "False"

SpJob == Prepared /\ ~Supplied("optimisation_parameters")

\* C17: every single-point job has an SP task statement that carries both
\* flags, an unsupplied flag as False: without calculation_parameters it
\* reads gradients=False, hessian=False, with only gradients=True it reads
\* gradients=True, hessian=False.
C17_SpFlags ==
    SpJob =>
        /\ Cardinality(TaskStatementsOf) = 1
        /\ \A n \in TaskStatementsOf :
              /\ script[n].ctor = "SP"
              /\ Len(script[n].args) = 3
              /\ script[n].args[1].k = "theory"
              /\ script[n].args[2] = Arg("gradients", FlagText("gradients"))
              /\ script[n].args[3] = Arg("hessian", FlagText("hessian"))
              /\ script[n].text =
                    "job = SP(theory=" \o script[n].args[1].v
                        \o ", gradients=" \o FlagText("gradients")
                        \o ", hessian=" \o FlagText("hessian") \o ")"

\* C17 witness: a QM single point with only gradients=True supplied
C17_Witness ==
    /\ SpJob
    /\ inputs.calculation_parameters = <<Item("gradients", VBool(TRUE))>>
    /\ \E n \in TaskStatementsOf :
          script[n].text = "job = SP(theory=qmtheory, gradients=True, hessian=False)"

\* a step in which chemsh_script_generator runs to its end
RenderStep ==
    \/ pc = "validated" /\ pc' = "prepared"
    \/ pc = "prepared" /\ pc' = "rendered"

\* C18: rendering is deterministic and pure: a second call of
\* chemsh_script_generator on the same job yields the same script text as
\* the first, and a render leaves the job's inputs as they were, the
\* supplied ports and the value self.inputs.<port> reads for each.
C18_RenderPure ==
    [][RenderStep =>
          /\ (pc = "prepared" => script' = script)
          /\ inputs' = inputs]_vars

----------------------------------------------------------------------------
(* ValidatorSpec: the validator of one port (structure, calculation_parameters, *)
(* optimisation_parameters, qm_parameters or mm_parameters) is applied to  *)
(* one mapping, as the port does when the process is created.              *)

\* the longest mapping handed to a validator
MaxItems == 2

QmItems ==
    {Item("theory", VStr(x)) : x \in {"NWChem", "nwchem", "NWCHEM", "amber"}}
        \cup {Item("theory", VInt(5))}
        \cup {Item("method", VStr(x)) : x \in {"HF", "hf", "Dft", "mp2"}}
        \cup {Item("scftype", VStr(x)) : x \in {"rhf", "UKS", "xhf"}}
        \cup {Item("maxiter", x) : x \in {VInt(50), VBool(TRUE), VStr("50")}}
        \cup {Item("charge", x) : x \in {VInt(0), VStr("x")}}
        \cup {Item("method", VInt(1))}
        \cup {Item("bogus_key", x) : x \in {VInt(1), VStr("x"), VBool(TRUE)}}
        \cup {Item("rcut", VFloat("1.5"))}

MmItems ==
    {Item("theory", VStr(x)) :
        x \in {"DL_POLY", "dl_poly", "Namd", "GULP", "none", "amber"}}
        \cup {Item("rcut", VFloat("1.5")), Item("binary", VBool(TRUE)),
              Item("molecule", VBool(FALSE)), Item("input", VStr("a.in"))}
        \cup {Item("rcut", VInt(2)), Item("binary", VInt(1)),
              Item("input", VInt(3))}
        \cup {Item("bogus_key", x) : x \in {VInt(1), VStr("x")}}
        \cup {Item("method", VStr("HF"))}

CalcItems ==
    {Item("gradients", x) : x \in {VBool(TRUE), VBool(FALSE), VInt(1), VStr("yes")}}
        \cup {Item("hessian", x) : x \in {VBool(TRUE), VBool(FALSE), VInt(0), VNone}}
        \cup {Item("gradient", VBool(TRUE)), Item("maxcycle", VInt(100))}

OptItems ==
    {Item("maxcycle", VInt(100)), Item("maxcycle", VStr("many")),
     Item("maxene", VInt(1000)), Item("coordinates", VStr("hdlc")),
     Item("algorithm", VStr("lbfgs")), Item("trust_radius", VStr("const")),
     Item("maxstep", VFloat("0.5")), Item("tolerance", VFloat("0.001")),
     Item("neb", VStr("frozen")), Item("nimages", VInt(8)),
     Item("nebk", VFloat("0.01")), Item("dimer", VBool(TRUE)),
     Item("delta", VFloat("0.01")), Item("tsrelative", VBool(FALSE)),
     Item("maxcycles", VInt(100)), Item("gradients", VBool(TRUE))}

StructureNames ==
    {"water.xyz", "water.pun", "water.cjson", "water.pdb", "water.json",
     "water.XYZ", "water.xyz.bak", "watercjson", "xyz", "butanol.ff"}

\* the mappings of at most MaxItems items drawn from a pool, no key twice
Mappings(pool) ==
    {d \in UNION {[1..n -> pool] : n \in 0..MaxItems} :
        \A i, j \in DOMAIN d : i # j => d[i].k # d[j].k}

ValidatorInit ==
    /\ \/ /\ pc = "qm"
          /\ \E d \in Mappings(QmItems) :
                inputs = Inputs(File("water.cjson"), {}, {}, {d}, {}, {}, {})
       \/ /\ pc = "mm"
          /\ \E d \in Mappings(MmItems) :
                inputs = Inputs(File("water.cjson"), {}, {}, {}, {d}, {}, {})
       \/ /\ pc = "calc"
          /\ \E d \in Mappings(CalcItems) :
                inputs = Inputs(File("water.cjson"), {d}, {}, {}, {}, {}, {})
       \/ /\ pc = "opt"
          /\ \E d \in Mappings(OptItems) :
                inputs = Inputs(File("water.cjson"), {}, {d}, {}, {}, {}, {})
       \/ /\ pc = "structure"
          /\ \E st \in {File(name) : name \in StructureNames} \cup {StructureData} :
                inputs = Inputs(st, {}, {}, {}, {}, {}, {})
    /\ Idle

\* the structure port calls its validator (line 44)
validate_structure ==
    /\ pc = "structure"
    /\ error' = validate_structure_file(inputs.structure)
    /\ pc' = "structure_checked"
    /\ UNCHANGED <<inputs, script, folder, calc_info, process_label, retrieved,
                   content, outputs, out_calls, exit_status, raised>>

\* the calculation_parameters port calls its validator (line 52)
validate_calc ==
    /\ pc = "calc"
    /\ error' = validate_calculation_parameters(inputs.calculation_parameters)
    /\ pc' = "calc_checked"
    /\ UNCHANGED <<inputs, script, folder, calc_info, process_label, retrieved,
                   content, outputs, out_calls, exit_status, raised>>

\* the optimisation_parameters port calls its validator (line 60)
validate_opt ==
    /\ pc = "opt"
    /\ error' = validate_optimisation_parameters(inputs.optimisation_parameters)
    /\ pc' = "opt_checked"
    /\ UNCHANGED <<inputs, script, folder, calc_info, process_label, retrieved,
                   content, outputs, out_calls, exit_status, raised>>

\* the qm_parameters port calls its validator (line 67)
validate_qm ==
    /\ pc = "qm"
    /\ error' = validate_qm_parameters(inputs.qm_parameters)
    /\ pc' = "qm_checked"
    /\ UNCHANGED <<inputs, script, folder, calc_info, process_label, retrieved,
                   content, outputs, out_calls, exit_status, raised>>

\* the mm_parameters port calls its validator (line 81)
validate_mm ==
    /\ pc = "mm"
    /\ error' = validate_mm_parameters(inputs.mm_parameters)
    /\ pc' = "mm_checked"
    /\ UNCHANGED <<inputs, script, folder, calc_info, process_label, retrieved,
                   content, outputs, out_calls, exit_status, raised>>

ValidatorNext ==
    validate_structure \/ validate_qm \/ validate_mm \/ validate_calc \/ validate_opt

ValidatorSpec == ValidatorInit /\ [][ValidatorNext]_vars

----------------------------------------------------------------------------
(* Claims about the option validators, checked under ValidatorSpec.        *)

\* the mapping that was validated, and the interface it names
QmChecked == pc = "qm_checked"
MmChecked == pc = "mm_checked"

\* spellings of the members of the two enumerations
QmTheorySpellings == {"NWChem", "nwchem", "NWCHEM"}
MmTheorySpellings ==
    [s \in {"DL_POLY", "dl_poly", "Namd", "GULP", "none"} |->
        CASE s \in {"DL_POLY", "dl_poly"} -> "DL_POLY"
          [] s = "Namd" -> "NAMD"
          [] s = "GULP" -> "GULP"
          [] OTHER -> "NONE"]

\* the value of a key, VNone when the mapping has none
ValueOf(d, key) ==
    IF \E n \in DOMAIN d : d[n].k = key
    THEN (CHOOSE it \in {d[n] : n \in DOMAIN d} : it.k = key).v
    ELSE VNone

QmTheoryValid ==
    /\ ValueOf(inputs.qm_parameters, "theory").t = "str"
    /\ ValueOf(inputs.qm_parameters, "theory").s \in QmTheorySpellings

MmTheoryValid ==
    /\ ValueOf(inputs.mm_parameters, "theory").t = "str"
    /\ ValueOf(inputs.mm_parameters, "theory").s \in DOMAIN MmTheorySpellings

\* the option names of the pools that each schema declares
QmSchemaKeys == {"theory", "method", "scftype", "maxiter", "charge"}

MmSchemaKeys(interface) ==
    {"theory", "input", "output"}
        \cup (CASE interface = "DL_POLY" -> {"rcut"}
                [] interface = "NAMD" -> {"binary"}
                [] interface = "GULP" -> {"molecule"}
                [] OTHER -> {})

\* the keys of the mapping that its schema does not have
QmUnknownKeys == Keys(inputs.qm_parameters) \ QmSchemaKeys

MmUnknownKeys ==
    Keys(inputs.mm_parameters)
        \ MmSchemaKeys(MmTheorySpellings[ValueOf(inputs.mm_parameters, "theory").s])

\* the answer is the invalid-keys message naming these keys
NamesKeys(keys) ==
    error.res = "message" /\ error.what = "InvalidOptionKey" /\ error.keys = keys

\* C19 as stated: a mapping with a key outside the schema (the QM schema,
\* or the schema of the mapping's own MM interface) is always rejected with
\* an error that names the offending key, whatever the key's value.
C19_UnknownKeyNamed ==
    /\ (QmChecked /\ QmUnknownKeys # {})
          => NamesKeys(QmUnknownKeys)
    /\ (MmChecked /\ MmTheoryValid /\ MmUnknownKeys # {})
          => NamesKeys(MmUnknownKeys)

\* C19 amended: a mapping with a key outside the schema is never accepted;
\* when its 'theory' names a member of the enumeration, the validator
\* returns the invalid-keys error naming exactly the offending keys (for
\* MM the keys outside the schema of that interface); when 'theory' is
\* itself refused, the validator stops there and the key is not named.
C19_UnknownKeyRejected ==
    /\ (QmChecked /\ QmUnknownKeys # {})
          => /\ error # Accept
             /\ QmTheoryValid => NamesKeys(QmUnknownKeys)
             /\ ~QmTheoryValid => error.keys \cap QmUnknownKeys = {}
    /\ (MmChecked /\ MmTheoryValid /\ MmUnknownKeys # {})
          => NamesKeys(MmUnknownKeys)
    /\ (MmChecked /\ ~MmTheoryValid)
          => error = Message("InvalidOptionValue", {"theory"})

\* C19 witness: DL_POLY with a key only NAMD has is refused, naming it
C19_Witness ==
    /\ MmChecked
    /\ inputs.mm_parameters =
          <<Item("theory", VStr("DL_POLY")), Item("binary", VBool(TRUE))>>
    /\ NamesKeys({"binary"})

\* the runtime types the schemas declare for the option names of the pools
DeclaredTypes(key) ==
    CASE key \in {"theory", "method", "scftype", "input"} -> {"str"}
      [] key = "maxiter" -> {"int"}
      [] key = "charge" -> {"float", "int"}
      [] key = "rcut" -> {"float"}
      [] OTHER -> {"bool"}

\* the keys of a mapping whose value has another runtime type
Mistyped(d) == {d[n].k : n \in {m \in DOMAIN d : d[m].v.t \notin DeclaredTypes(d[m].k)}}

\* the enumerated options of the QM mapping are absent or a spelling of a
\* member of their value set
MethodValid ==
    \/ "method" \notin Keys(inputs.qm_parameters)
    \/ ValueOf(inputs.qm_parameters, "method").s \in {"HF", "hf", "Dft"}

ScftypeValid ==
    \/ "scftype" \notin Keys(inputs.qm_parameters)
    \/ ValueOf(inputs.qm_parameters, "scftype").s \in {"rhf", "UKS"}

\* a QM mapping with a valid theory, known keys and well-typed values
QmWellTyped ==
    QmTheoryValid /\ QmUnknownKeys = {} /\ Mistyped(inputs.qm_parameters) = {}

\* C20: enumerated values are matched case-insensitively: a mapping whose
\* 'theory', 'method' and 'scftype' are spellings, in any letter case, of
\* members of their closed sets is accepted, and every other value, an
\* absent 'theory' included, is rejected with a validation error (the
\* validator returns a message).
C20_EnumeratedValues ==
    /\ QmChecked =>
          /\ ~QmTheoryValid => error.res = "message"
          /\ (QmWellTyped /\ MethodValid /\ ScftypeValid) => error = Accept
          /\ (QmWellTyped /\ ~MethodValid)
                => error = Message("InvalidOptionValue", {"method"})
          /\ (QmWellTyped /\ MethodValid /\ ~ScftypeValid)
                => error = Message("InvalidOptionValue", {"scftype"})
    /\ MmChecked =>
          /\ ~MmTheoryValid => error.res = "message"
          /\ (MmTheoryValid /\ MmUnknownKeys = {}
                /\ Mistyped(inputs.mm_parameters) = {}) => error = Accept

\* the enumerated options that are strings are spelled as a member
EnumeratedValid ==
    /\ ValueOf(inputs.qm_parameters, "method").t = "str" => MethodValid
    /\ ValueOf(inputs.qm_parameters, "scftype").t = "str" => ScftypeValid

\* C21: a QM or MM mapping whose keys are all in the schema (and whose
\* enumerated values are legal) is rejected exactly when some key's value
\* has a runtime type other than the declared one, and the error is a
\* message that identifies such a key.
C21_TypesChecked ==
    /\ (QmChecked /\ QmTheoryValid /\ QmUnknownKeys = {} /\ EnumeratedValid)
          => IF Mistyped(inputs.qm_parameters) = {} THEN error = Accept
             ELSE /\ error.res = "message" /\ error.what = "InvalidOptionType"
                  /\ error.keys # {}
                  /\ error.keys \subseteq Mistyped(inputs.qm_parameters)
    /\ (MmChecked /\ MmTheoryValid /\ MmUnknownKeys = {})
          => IF Mistyped(inputs.mm_parameters) = {} THEN error = Accept
             ELSE /\ error.res = "message" /\ error.what = "InvalidOptionType"
                  /\ error.keys # {}
                  /\ error.keys \subseteq Mistyped(inputs.mm_parameters)

CalcChecked == pc = "calc_checked"
OptChecked == pc = "opt_checked"

FlagKeys == {"gradients", "hessian"}

OptimiserControls ==
    {"maxcycle", "maxene", "coordinates", "algorithm", "trust_radius", "maxstep",
     "tolerance", "neb", "nimages", "nebk", "dimer", "delta", "tsrelative"}

\* the answer is the invalid-keys message listing the keys of the mapping
\* outside the allow-list, and the allow-list
RejectsKeys(d, allowed) ==
    /\ NamesKeys(Keys(d) \ allowed)
    /\ error.valid = allowed

StructureChecked == pc = "structure_checked"

\* the file names of the pool that end in a recognised extension
RecognisedNames == {"water.xyz", "water.pun", "water.cjson"}

\* C23: a structure given as a file is accepted exactly when its
\* filename's extension is .xyz, .pun or .cjson, and every other filename
\* is rejected with an error message; an embedded structure
\* (StructureData) is always accepted.
C23_StructureExtension ==
    StructureChecked =>
        IF inputs.structure.type = "SinglefileData"
        THEN /\ error = Accept <=> inputs.structure.filename \in RecognisedNames
             /\ inputs.structure.filename \notin RecognisedNames
                    => error.res = "message"
        ELSE error = Accept

\* C23 witness: a .cjson file passed the validator
C23_Witness ==
    /\ StructureChecked
    /\ inputs.structure = File("water.cjson")
    /\ error = Accept

----------------------------------------------------------------------------
(* Claims about the process label and the script as a whole, checked under *)
(* Spec.                                                                   *)

TaskPrefixes == {"ChemShell_Geometry_Optimisation", "ChemShell_Single_Point_Calculation"}
TheorySuffixes == {"_(QM/MM)", "_(QM)", "_(MM)"}

StartsWith(prefix) == process_label \in {prefix \o sfx : sfx \in TheorySuffixes}
EndsWith(suffix) == process_label \in {pfx \o suffix : pfx \in TaskPrefixes}

\* the name the task statement of the script gives as its theory
TaskTheory(name) ==
    \E n \in TaskStatementsOf : script[n].args[1] = Arg("theory", name)

\* C24: the process label starts with ChemShell_Geometry_Optimisation
\* exactly when optimisation_parameters is an input and with
\* ChemShell_Single_Point_Calculation otherwise; it ends with _(QM/MM)
\* exactly when qm_parameters and mm_parameters are both set, with _(QM)
\* exactly when only qm_parameters is, with _(MM) exactly when only
\* mm_parameters is; and the label agrees with the script: the task
\* statement is an Opt exactly for the optimisation label, and its theory
\* is qmmm, qmtheory or mmtheory as the label's suffix says.
C24_ProcessLabel ==
    /\ process_label # "" =>
          /\ StartsWith("ChemShell_Geometry_Optimisation")
                <=> Supplied("optimisation_parameters")
          /\ StartsWith("ChemShell_Single_Point_Calculation")
                <=> ~Supplied("optimisation_parameters")
          /\ EndsWith("_(QM/MM)")
                <=> (Supplied("qm_parameters") /\ Supplied("mm_parameters"))
          /\ EndsWith("_(QM)")
                <=> (Supplied("qm_parameters") /\ ~Supplied("mm_parameters"))
          /\ EndsWith("_(MM)")
                <=> (~Supplied("qm_parameters") /\ Supplied("mm_parameters"))
    /\ Prepared =>
          /\ process_label # ""
          /\ StartsWith("ChemShell_Geometry_Optimisation") <=> OptStatement
          /\ EndsWith("_(QM/MM)") <=> TaskTheory("qmmm")
          /\ EndsWith("_(QM)") <=> TaskTheory("qmtheory")
          /\ EndsWith("_(MM)") <=> TaskTheory("mmtheory")

\* the text of the option values the model supplies
Literal(val) ==
    CASE val = VStr("HF") -> "'HF'"
      [] val = VStr("dft") -> "'dft'"
      [] val = VStr("rhf") -> "'rhf'"
      [] val = VInt(50) -> "50"
      [] val = VFloat("1.5") -> "1.5"
      [] val = VBool(TRUE) -> "True"
      [] val = VBool(FALSE) -> "False"
      [] val = VList(<<4, 4>>) -> "[4, 4]"
      [] OTHER -> "?"

IsOption(item) == item.k # "theory"
FromMapping(arg) == arg.k \notin {"frag", "ff"}

\* the constructor arguments a mapping should give: its items other than
\* 'theory', in order
OptionArgs(d) ==
    LET opts == SelectSeq(d, IsOption)
    IN  [n \in DOMAIN opts |-> Arg(opts[n].k, Literal(opts[n].v))]

\* C25: in every QM and MM theory-construction statement the arguments
\* taken from the option mapping are exactly the mapping's keys other than
\* 'theory', each once as key=value in the mapping's order; 'theory' is
\* never an argument; a string is emitted between single quotes as
\* supplied and every other value in its native text (True/False, a
\* bracketed list).
C25_ConstructorArgs ==
    Prepared =>
        /\ \A n \in Assigning("qmtheory") :
              /\ SelectSeq(script[n].args, FromMapping) = OptionArgs(inputs.qm_parameters)
              /\ script[n].text \in
                    {"qmtheory = " \o script[n].ctor \o "(" \o lead
                        \o JoinArgs(OptionArgs(inputs.qm_parameters)) \o ")" :
                     lead \in {"", " ", "frag=structure", "frag=structure, "}}
        /\ \A n \in Assigning("mmtheory") :
              /\ SelectSeq(script[n].args, FromMapping) = OptionArgs(inputs.mm_parameters)
              /\ script[n].text \in
                    {"mmtheory = " \o script[n].ctor \o "(" \o lead \o "ff='"
                        \o inputs.force_field_file.filename \o "'" \o sep
                        \o JoinArgs(OptionArgs(inputs.mm_parameters)) \o ")" :
                     lead \in {"", "frag=structure, "}, sep \in {"", ", "}}
        /\ \A n \in Assigning("qmtheory") \cup Assigning("mmtheory") :
              ~HasArg(n, "theory")

\* C25 witness: a QM job whose mapping has 'theory' in second place, after
\* method='dft'
C25_Witness ==
    /\ Prepared
    /\ Len(inputs.qm_parameters) = 4
    /\ inputs.qm_parameters[2] = Item("theory", VStr("ORCA"))
    /\ \E n \in Assigning("qmtheory") :
          script[n].text =
            "qmtheory = ORCA(frag=structure, method='dft', scftype='rhf', maxiter=50)"

\* the place of a statement in the order structure, QM theory, MM theory,
\* QM/MM coupling, task, job.run(), job.result.save(); an import stands
\* with the statement that uses it
Rank(stmt) ==
    CASE stmt.kind = "call" -> IF stmt.target = "job.run()" THEN 6 ELSE 7
      [] stmt.kind = "import" ->
            (CASE stmt.target = "Fragment" -> 1
               [] stmt.target \in {"DL_POLY", "GULP", "NAMD"} -> 3
               [] stmt.target = "QMMM" -> 4
               [] stmt.target \in {"SP", "Opt"} -> 5
               [] OTHER -> 2)
      [] OTHER ->
            (CASE stmt.target = "structure" -> 1
               [] stmt.target = "qmtheory" -> 2
               [] stmt.target = "mmtheory" -> 3
               [] stmt.target = "qmmm" -> 4
               [] OTHER -> 5)

\* the names a statement reads
Referenced(stmt) ==
    IF stmt.kind = "call" THEN {"job"}
    ELSE {stmt.args[a].v : a \in {b \in DOMAIN stmt.args :
                                    stmt.args[b].k \in {"frag", "theory", "qm", "mm"}}}

AssignedBefore(name, n) ==
    \E m \in 1..(n - 1) : script[m].kind = "assign" /\ script[m].target = name

\* C26: in every script rendered for a configuration the validators
\* accept (a theory of 'none' included) the statements stand in the order
\* structure, QM theory, MM theory, QM/MM coupling, task, job.run(),
\* job.result.save(); there is exactly one job = ... statement; and every
\* name a statement references is assigned by an earlier statement.
C26_DefineBeforeUse ==
    Prepared =>
        /\ \A n, m \in DOMAIN script : n < m => Rank(script[n]) <= Rank(script[m])
        /\ Len(script) >= 2
        /\ script[Len(script) - 1] = Call("job.run()")
        /\ script[Len(script)] = Call("job.result.save()")
        /\ Cardinality(Assigning("job")) = 1
        /\ \A n \in DOMAIN script :
              \A name \in Referenced(script[n]) : AssignedBefore(name, n)

----------------------------------------------------------------------------
(* Claim about the composer and the parser together, checked under         *)
(* ParseSpec, whose jobs carry the script rendered from their inputs.      *)

\* the task statement of the script asks the driver for the array
ScriptAsks(flag) ==
    \E n \in TaskStatementsOf : \E a \in DOMAIN script[n].args :
        script[n].args[a] = Arg(flag, "True")

\* C27: parse requires a gradients (a hessian) array in the record only if
\* the rendered task statement asked for it with gradients=True
\* (hessian=True): when parse ends in ERROR_MISSING_GRADIENTS, an array the
\* script asked for is not usable.  In particular an optimisation with
\* calculation_parameters {gradients: True}, whose Opt statement forwards
\* no flag, does not end in ERROR_MISSING_GRADIENTS on a record with the
\* energy only and the punch file retrieved.
C27_ComposerParserAgree ==
    (Parsed /\ exit_status = ERROR_MISSING_GRADIENTS)
        => \/ ScriptAsks("gradients") /\ ~ArrayUsable("gradients")
           \/ ScriptAsks("hessian") /\ ~ArrayUsable("hessian")

====
